---------------------------- MODULE Spec2Model ----------------------------
(***************************************************************************)
(* tiled-uproot: the metadata collector (populate.py) and the lookup       *)
(* engine (extract.py), as state machines.                                 *)
(*                                                                         *)
(* Strings that the code splits or joins (file paths) are sequences of     *)
(* one-character strings; Python lists are sequences (1-based here,        *)
(* 0-based in the source); Python dicts that the code relies on for        *)
(* insertion order are sequences of records carrying their key.            *)
(***************************************************************************)
EXTENDS Integers, Sequences, FiniteSets, TLC

(***************************************************************************)
(* Bounds of the model.                                                    *)
(***************************************************************************)
\* collect calls started on one CollectedData instance
MaxCalls == 3
\* largest prefix_depth given to CollectedData.__init__
MaxPrefixDepth == 2
\* collect calls behind an index array that the lookup engine reads
MaxFiles == 3
\* collect calls behind an index array given to concatenate
MaxConcatFiles == 1
\* index arrays given to one concatenate call
MaxArrays == 2
\* arrays() calls on one TiledUproot instance
MaxReads == 1
\* calls made on the branches of one facade tree
MaxOps == 4
\* collect calls behind an index array on which single operations of the
\* lookup engine are called (_fetch_filedata, _fetch_seekdata, the sources)
MaxFetchFiles == 2
\* direct calls of _fetch_filedata or _fetch_seekdata on one instance
MaxFetches == 2

(***************************************************************************)
(* Generic helpers for Python list and string operations.                  *)
(***************************************************************************)
Min(a, b) == IF a < b THEN a ELSE b

Max(a, b) == IF a > b THEN a ELSE b

\* s[-1]
Last(s) == s[Len(s)]

\* s[:n] for n >= 0
Take(s, n) == IF n <= 0 THEN <<>> ELSE SubSeq(s, 1, Min(n, Len(s)))

\* s[n:] for n >= 0 (0-based n)
Drop(s, n) == IF n >= Len(s) THEN <<>> ELSE SubSeq(s, Max(n, 0) + 1, Len(s))

\* s[:-d] for d >= 1
DropLast(s, d) == Take(s, Len(s) - d)

\* s[-d:] for d >= 1
TakeLast(s, d) == Drop(s, Len(s) - d)

RECURSIVE SumSeq(_)
SumSeq(s) == IF s = <<>> THEN 0 ELSE s[1] + SumSeq(Tail(s))

RECURSIVE Flatten(_)
Flatten(ss) == IF ss = <<>> THEN <<>> ELSE ss[1] \o Flatten(Tail(ss))

Range(s) == {s[i] : i \in 1..Len(s)}

\* the first position of c in s, 0 when absent
RECURSIVE IndexOf(_, _)
IndexOf(s, c) ==
    IF s = <<>> THEN 0
    ELSE IF s[1] = c THEN 1
    ELSE LET r == IndexOf(Tail(s), c) IN IF r = 0 THEN 0 ELSE r + 1

\* str.split(sep): the pieces between the occurrences of sep
RECURSIVE Split(_, _)
Split(s, sep) ==
    LET i == IndexOf(s, sep)
    IN  IF i = 0 THEN <<s>>
        ELSE <<SubSeq(s, 1, i - 1)>> \o Split(Drop(s, i), sep)

\* sep.join(parts)
RECURSIVE Join(_, _)
Join(parts, sep) ==
    IF parts = <<>> THEN <<>>
    ELSE IF Len(parts) = 1 THEN parts[1]
    ELSE parts[1] \o <<sep>> \o Join(Tail(parts), sep)

(***************************************************************************)
(* The files on disk that collect is called on (what uproot.open and the   *)
(* tree's members return).  status "noopen": uproot.open raises;           *)
(* "notree": file[treename] raises; "ok": the tree is read.                *)
(***************************************************************************)
Branch(name, key, n, seek, entry, bytes) ==
    [name |-> name, interpretation |-> [cache_key |-> key],
     num_normal_baskets |-> n,
     fBasketSeek |-> seek, fBasketEntry |-> entry, fBasketBytes |-> bytes]

RootFile(filename, status, n, branches) ==
    [filename |-> filename, status |-> status, num_entries |-> n,
     branches |-> branches]

\* the tree name every call asks for
TreeName == "Events"

Disk ==
    [fa |-> RootFile(<<"d", "/", "a">>, "ok", 2,
               << Branch("x", "i4", 1, <<100, 0>>, <<0, 2, 0>>, <<10, 0>>),
                  Branch("y", "f8", 2, <<200, 300>>, <<0, 1, 2>>, <<20, 30>>) >>),
     fb |-> RootFile(<<"d", "/", "b">>, "ok", 1,
               << Branch("y", "f8", 1, <<400>>, <<0, 1>>, <<40>>),
                  Branch("x", "i4", 1, <<500>>, <<0, 1>>, <<50>>) >>),
     fc |-> RootFile(<<"c">>, "ok", 1,
               << Branch("x", "f8", 1, <<600>>, <<0, 1>>, <<60>>) >>),
     fd |-> RootFile(<<"e", "/", "d">>, "ok", 1,
               << Branch("y", "i4", 1, <<800>>, <<0, 1>>, <<80>>) >>),
     fz |-> RootFile(<<"e", "/", "z">>, "ok", 0,
               << Branch("z", "i4", 0, <<0>>, <<0, 0>>, <<0>>) >>),
     fm |-> RootFile(<<"d", "/", "m">>, "ok", 2,
               << Branch("x", "i4", 1, <<700>>, <<0, 1>>, <<70>>) >>),
     fn |-> RootFile(<<"d", "/", "n">>, "notree", 0, <<>>),
     fo |-> RootFile(<<"d", "/", "o">>, "noopen", 0, <<>>)]

FileIds == DOMAIN Disk

\* Python's order on the branch names (str.__lt__)
NameRank == ("x" :> 1) @@ ("y" :> 2) @@ ("z" :> 3)

(***************************************************************************)
(* collect, lines 23-55: what is computed from the opened file.            *)
(***************************************************************************)
\* sorted(branches, key=lambda x: x.name): a stable insertion sort
RECURSIVE InsertByName(_, _)
InsertByName(sorted, b) ==
    IF sorted = <<>> THEN <<b>>
    ELSE IF NameRank[b.name] < NameRank[sorted[1].name]
         THEN <<b>> \o sorted
         ELSE <<sorted[1]>> \o InsertByName(Tail(sorted), b)

RECURSIVE SortedByName(_)
SortedByName(branches) ==
    IF branches = <<>> THEN <<>>
    ELSE InsertByName(SortedByName(DropLast(branches, 1)), Last(branches))

\* f"{treename}\n" + "\n".join(f"{name}\t{cache_key}" ...), as its pieces
EraKey(treename, branches) ==
    LET lines == [i \in 1..Len(branches) |->
                    << SortedByName(branches)[i].name, "\t",
                       SortedByName(branches)[i].interpretation.cache_key >>]
    IN  <<treename, "\n">> \o Join(lines, "\n")

\* zip(fBasketSeek[:n], fBasketEntry[1:n+1], fBasketBytes[:n])
BranchData(branch) ==
    LET n     == branch.num_normal_baskets
        seek  == Take(branch.fBasketSeek, n)
        stop  == Take(Drop(branch.fBasketEntry, 1), n)
        bytes == Take(branch.fBasketBytes, n)
        len   == Min(Len(seek), Min(Len(stop), Len(bytes)))
    IN  [k \in 1..len |-> [seek |-> seek[k], stop |-> stop[k], bytes |-> bytes[k]]]

\* the assert of line 55, for every branch of the loop
BasketsConsistent(file) ==
    \A i \in 1..Len(file.branches) :
        (file.num_entries > 0 /\ file.branches[i].num_normal_baskets > 0)
            => Last(BranchData(file.branches[i])).stop = file.num_entries

\* num_entries if an empty tree were counted as one entry
NumEntriesNeverZero(file) ==
    IF file.status = "ok" THEN Max(1, file.num_entries) ELSE 0

\* num_entries after the with block: 0 when the tree is not found
NumEntries(file) == IF file.status = "ok" THEN file.num_entries ELSE 0

\* pickle.dumps(interpretation) and pickle.loads(blob)
PickleDumps(interp) == [pickled |-> interp]

PickleLoads(blob) == blob.pickled

(***************************************************************************)
(* collect, lines 57-93: the steps of the commit, as functions of the      *)
(* collector's fields.                                                     *)
(***************************************************************************)
\* self.eras.get(era_key): the position of the record, 0 for None
ErasGet(eras_, era_key) ==
    IF \E i \in 1..Len(eras_) : eras_[i].key = era_key
    THEN CHOOSE i \in 1..Len(eras_) : eras_[i].key = era_key
    ELSE 0

\* lines 59-68
ErasGetOrInsert(eras_, treename, file) ==
    IF ErasGet(eras_, EraKey(treename, file.branches)) # 0 THEN eras_
    ELSE Append(eras_,
            [key |-> EraKey(treename, file.branches),
             index |-> Len(eras_),
             treename |-> treename,
             names |-> [i \in 1..Len(file.branches) |-> file.branches[i].name],
             interpretations |->
                [i \in 1..Len(file.branches) |->
                    PickleDumps(file.branches[i].interpretation)]])

\* line 70 without the running total
OffsetsAppendNoTotal(entry_offsets_, num_entries) ==
    Append(entry_offsets_, num_entries)

\* line 70
OffsetsAppend(entry_offsets_, num_entries) ==
    Append(entry_offsets_, Last(entry_offsets_) + num_entries)

\* lines 72-76
SplitFilename(filename) == Split(filename, "/")

Prefix(filename, depth) ==
    Join(DropLast(SplitFilename(filename), depth), "/") \o <<"/">>

LastName(filename, depth) == Join(TakeLast(SplitFilename(filename), depth), "/")

\* the assert of line 73
DepthOk(filename, depth) == Len(SplitFilename(filename)) >= depth

PrefixGet(prefix_eras_, prefix) ==
    IF \E i \in 1..Len(prefix_eras_) : prefix_eras_[i].prefix = prefix
    THEN CHOOSE i \in 1..Len(prefix_eras_) : prefix_eras_[i].prefix = prefix
    ELSE 0

\* lines 77-82
PrefixGetOrInsert(prefix_eras_, prefix) ==
    IF PrefixGet(prefix_eras_, prefix) # 0 THEN prefix_eras_
    ELSE Append(prefix_eras_, [index |-> Len(prefix_eras_), prefix |-> prefix])

\* {name: branch_data[i] for i, name in enumerate(era["names"])}
RowTree(era, file) ==
    [name \in Range(era.names) |->
        BranchData(file.branches[
            CHOOSE i \in 1..Len(era.names) :
                /\ era.names[i] = name
                /\ \A j \in (i + 1)..Len(era.names) : era.names[j] # name])]

\* lines 84-93
LookupRow(era, prefix_era, file, depth) ==
    [filename |-> LastName(file.filename, depth),
     tree |-> RowTree(era, file),
     era |-> era.index,
     prefix |-> prefix_era.index]


\* to_array, lines 95-113: the index array built from the collector's fields
IndexArray(entry_offsets_, lookup_table_, eras_, prefix_eras_) ==
    [offsets |-> entry_offsets_,
     file |-> lookup_table_,
     era |-> [i \in 1..Len(eras_) |->
                [treename |-> eras_[i].treename,
                 names |-> eras_[i].names,
                 interpretations |-> eras_[i].interpretations]],
     prefix |-> [i \in 1..Len(prefix_eras_) |-> prefix_eras_[i].prefix]]

(***************************************************************************)
(* The index arrays that exist: to_array after a run of collect calls by   *)
(* one caller in which every call returned (populate.py lines 168-172).    *)
(***************************************************************************)
NewCollector == [eras |-> <<>>, entry_offsets |-> <<0>>, prefix_eras |-> <<>>,
                 lookup_table |-> <<>>]

\* collect returns normally: none of lines 26, 55 and 73 raises
CollectReturns(f, depth) ==
    /\ Disk[f].status # "noopen"
    /\ Disk[f].status = "ok" => BasketsConsistent(Disk[f])
    /\ NumEntries(Disk[f]) > 0 => DepthOk(Disk[f].filename, depth)

\* lines 57-93 for one returning call
CollectCommit(cd, f, depth) ==
    IF NumEntries(Disk[f]) = 0 THEN cd
    ELSE LET eras2 == ErasGetOrInsert(cd.eras, TreeName, Disk[f])
             era == eras2[ErasGet(eras2, EraKey(TreeName, Disk[f].branches))]
             pre2 == PrefixGetOrInsert(cd.prefix_eras,
                                       Prefix(Disk[f].filename, depth))
             prefix_era == pre2[PrefixGet(pre2, Prefix(Disk[f].filename, depth))]
         IN  [eras |-> eras2,
              entry_offsets |-> OffsetsAppend(cd.entry_offsets, NumEntries(Disk[f])),
              prefix_eras |-> pre2,
              lookup_table |-> Append(cd.lookup_table,
                                  LookupRow(era, prefix_era, Disk[f], depth))]

RECURSIVE CollectAll(_, _)
CollectAll(fs, depth) ==
    IF fs = <<>> THEN NewCollector
    ELSE CollectCommit(CollectAll(DropLast(fs, 1), depth), Last(fs), depth)

CollectRuns(maxlen, depth) ==
    {fs \in UNION {[1..n -> FileIds] : n \in 0..maxlen} :
        \A i \in 1..Len(fs) : CollectReturns(fs[i], depth)}

IndexArrays(maxlen) ==
    UNION {{LET cd == CollectAll(fs, depth)
            IN  IndexArray(cd.entry_offsets, cd.lookup_table, cd.eras,
                           cd.prefix_eras) : fs \in CollectRuns(maxlen, depth)} :
           depth \in 1..MaxPrefixDepth}

(***************************************************************************)
(* concatenate (populate.py lines 115-152).                                *)
(***************************************************************************)
\* line 123 without the running total
ExtendOffsetsNoTotal(offsets, array) == offsets \o Drop(array.offsets, 1)

\* line 123: offsets.extend(offsets[-1] + array[0, "offsets", 1:])
ExtendOffsets(offsets, array) ==
    offsets \o [k \in 1..Len(Drop(array.offsets, 1)) |->
                    Last(offsets) + Drop(array.offsets, 1)[k]]

\* lines 124-126 without the shift of the prefix index
ShiftedFileNoPrefix(array, num_eras, num_prefixes) ==
    [k \in 1..Len(array.file) |->
        [array.file[k] EXCEPT !.era = num_eras + @]]

\* lines 124-126: the file rows with era and prefix indices shifted
ShiftedFile(array, num_eras, num_prefixes) ==
    [k \in 1..Len(array.file) |->
        [array.file[k] EXCEPT !.era = num_eras + @,
                              !.prefix = num_prefixes + @]]

\* lines 122-131: the loop, from the state acc over the remaining arrays
RECURSIVE ConcatenateLoop(_, _)
ConcatenateLoop(acc, arrays_) ==
    IF arrays_ = <<>> THEN acc
    ELSE LET array == arrays_[1]
         IN  ConcatenateLoop(
                [offsets |-> ExtendOffsets(acc.offsets, array),
                 file |-> Append(acc.file,
                            ShiftedFile(array, acc.num_eras, acc.num_prefixes)),
                 era |-> Append(acc.era, array.era),
                 num_eras |-> acc.num_eras + Len(array.era),
                 prefix |-> Append(acc.prefix, array.prefix),
                 num_prefixes |-> acc.num_prefixes + Len(array.prefix)],
                Tail(arrays_))

\* lines 115-152
Concatenate(arrays_) ==
    LET acc == ConcatenateLoop(
                 [offsets |-> <<0>>, file |-> <<>>, era |-> <<>>, num_eras |-> 0,
                  prefix |-> <<>>, num_prefixes |-> 0], arrays_)
    IN  [offsets |-> acc.offsets,
         file |-> Flatten(acc.file),
         era |-> Flatten(acc.era),
         prefix |-> Flatten(acc.prefix)]

(***************************************************************************)
(* TiledUproot (extract.py): lookups in the index array.  File indices     *)
(* are 0-based as in the source; dicts are functions on their keys.        *)
(***************************************************************************)
\* s[i] for a 0-based i
At(s, i) == s[i + 1]

\* d[k] = v
Put(d, k, v) == (k :> v) @@ d

\* range(a, b)
PyRange(a, b) == a..(b - 1)

\* np.searchsorted(offsets, e, side="right") on the sorted offsets
SearchSortedRight(offsets, e) ==
    Cardinality({k \in 1..Len(offsets) : offsets[k] <= e})

\* _file_index_range without the test of line 187
FileIndexRangeNoBoundary(offsets, entry_start, entry_stop) ==
    LET e1 == Max(0, Min(Last(offsets), entry_start))
        e2 == Max(e1, Min(Last(offsets), entry_stop))
    IN  IF e1 = e2 THEN <<0, 0>>
        ELSE <<SearchSortedRight(offsets, e1) - 1, SearchSortedRight(offsets, e2)>>

\* _file_index_range without the test of line 183
FileIndexRangeNoEmpty(offsets, entry_start, entry_stop) ==
    LET e1 == Max(0, Min(Last(offsets), entry_start))
        e2 == Max(e1, Min(Last(offsets), entry_stop))
        i1 == SearchSortedRight(offsets, e1) - 1
        i2 == SearchSortedRight(offsets, e2) - 1
    IN  IF At(offsets, i2) # e2 THEN <<i1, i2 + 1>> ELSE <<i1, i2>>

\* _file_index_range, lines 180-189
FileIndexRange(offsets, entry_start, entry_stop) ==
    LET e1 == Max(0, Min(Last(offsets), entry_start))
        e2 == Max(e1, Min(Last(offsets), entry_stop))
        i1 == SearchSortedRight(offsets, e1) - 1
        i2 == SearchSortedRight(offsets, e2) - 1
    IN  IF e1 = e2 THEN <<0, 0>>
        ELSE IF At(offsets, i2) # e2 THEN <<i1, i2 + 1>> ELSE <<i1, i2>>

\* keys, lines 83-89: the names of all eras in first-seen order
RECURSIVE Unique(_)
Unique(names) ==
    IF names = <<>> THEN <<>>
    ELSE LET head == Unique(DropLast(names, 1))
         IN  IF Last(names) \in Range(head) THEN head
             ELSE Append(head, Last(names))

\* keys restricted to the names of the last era
KeysOfLastEra(cl) == Last(cl.era).names

Keys(cl) == Unique(Flatten([i \in 1..Len(cl.era) |-> cl.era[i].names]))

\* items, line 114: zip(era["names"], era["interpretations"]) of every era
EraPairs(cl) ==
    Flatten([i \in 1..Len(cl.era) |->
                [k \in 1..Min(Len(cl.era[i].names), Len(cl.era[i].interpretations)) |->
                    <<cl.era[i].names[k], cl.era[i].interpretations[k]>>]])

\* items, lines 115-119, keeping the first descriptor seen for a name
RECURSIVE ItemsLoopFirstWins(_, _)
ItemsLoopFirstWins(acc, pairs) ==
    IF pairs = <<>> THEN acc
    ELSE ItemsLoopFirstWins(
            IF IndexOf(acc.where, pairs[1][1]) = 0
            THEN [where |-> Append(acc.where, pairs[1][1]),
                  values |-> Append(acc.values, pairs[1][2])]
            ELSE acc,
            Tail(pairs))

\* items, lines 113-119: where holds the names in insertion order, values
\* the pickled descriptor at each name's position
RECURSIVE ItemsLoop(_, _)
ItemsLoop(acc, pairs) ==
    IF pairs = <<>> THEN acc
    ELSE ItemsLoop(
            IF IndexOf(acc.where, pairs[1][1]) = 0
            THEN [where |-> Append(acc.where, pairs[1][1]),
                  values |-> Append(acc.values, pairs[1][2])]
            ELSE [acc EXCEPT !.values[IndexOf(acc.where, pairs[1][1])] = pairs[1][2]],
            Tail(pairs))

\* items, lines 110-122; TiledBranch(k, interpretation) is a record
Items(cl) ==
    LET acc == ItemsLoop([where |-> <<>>, values |-> <<>>], EraPairs(cl))
    IN  [k \in 1..Len(acc.where) |->
            [name |-> acc.where[k],
             interpretation |-> PickleLoads(acc.values[k])]]

\* keys, lines 79-90, from self._keys and self._items (None is <<>>)
KeysResult(keys_, items_, cl) ==
    IF keys_ # <<>> THEN keys_[1]
    ELSE IF items_ # <<>>
         THEN [k \in 1..Len(items_[1]) |-> items_[1][k].name]
         ELSE Keys(cl)

\* dict(zip(era["names"], [pickle.loads(x) for x in era["interpretations"]]))
EraInterpretations(era) ==
    [name \in Range(era.names) |->
        PickleLoads(era.interpretations[
            CHOOSE i \in 1..Min(Len(era.names), Len(era.interpretations)) :
                /\ era.names[i] = name
                /\ \A j \in (i + 1)..Min(Len(era.names), Len(era.interpretations)) :
                        era.names[j] # name])]

\* one item asked from the store (self.client[...]), with whether the
\* engine's cache held the item when it was asked
Request(kind, index, name, cached) ==
    [kind |-> kind, index |-> index, name |-> name, cached |-> cached]

\* line 193: the rows index_start:index_stop of "file"
FileRequests(c, cl, index_start, index_stop) ==
    {Request("file", i, "", i \in DOMAIN c.filenames) :
        i \in PyRange(index_start, Min(index_stop, Len(cl.file)))}

\* _fetch_filedata, lines 197-217: the loop over the fetched rows from row i
RECURSIVE FetchFiledataLoop(_, _, _, _)
FetchFiledataLoop(c, cl, i, index_stop) ==
    IF i >= Min(index_stop, Len(cl.file)) THEN c
    ELSE LET data == At(cl.file, i)
             era_index == data.era
             c1 == IF era_index \in DOMAIN c.treenames THEN c
                   ELSE [c EXCEPT
                           !.requests = @ \cup {Request("era", era_index, "",
                                                        FALSE)},
                           !.treenames = Put(@, era_index,
                                             At(cl.era, era_index).treename),
                           !.interpretations =
                               Put(@, era_index,
                                   EraInterpretations(At(cl.era, era_index)))]
             prefix_index == data.prefix
             c2 == IF prefix_index \in DOMAIN c1.prefix THEN c1
                   ELSE [c1 EXCEPT
                           !.requests = @ \cup {Request("prefix", prefix_index,
                                                        "", FALSE)},
                           !.prefix = Put(@, prefix_index,
                                          At(cl.prefix, prefix_index))]
         IN  FetchFiledataLoop(
                [c2 EXCEPT
                    !.filenames = Put(@, i, c2.prefix[prefix_index] \o data.filename),
                    !.eras = Put(@, i, era_index)],
                cl, i + 1, index_stop)

\* _fetch_filedata, lines 191-217
FetchFiledata(c, cl, index_start, index_stop) ==
    IF \A i \in PyRange(index_start, index_stop) : i \in DOMAIN c.filenames
    THEN c
    ELSE FetchFiledataLoop(
            [c EXCEPT !.requests =
                        @ \cup FileRequests(c, cl, index_start, index_stop)],
            cl, index_start, index_stop)

\* self._seekdata.get(i, ()): the branch names cached for file i
SeekNames(seekdata, i) == IF i \in DOMAIN seekdata THEN DOMAIN seekdata[i] ELSE {}

\* line 225 can be served: every fetched row's tree has the asked fields
SeekFetchable(cl, index_start, index_stop, branches) ==
    \A i \in PyRange(index_start, Min(index_stop, Len(cl.file))) :
        Range(branches) \subseteq DOMAIN At(cl.file, i).tree

\* the loop of lines 227-236 with each file's entry built anew
RECURSIVE FetchSeekdataLoopReplaces(_, _, _, _, _)
FetchSeekdataLoopReplaces(seekdata, cl, i, index_stop, branches) ==
    IF i >= Min(index_stop, Len(cl.file)) THEN seekdata
    ELSE FetchSeekdataLoopReplaces(
            Put(seekdata, i, [name \in Range(branches) |-> At(cl.file, i).tree[name]]),
            cl, i + 1, index_stop, branches)

\* _fetch_seekdata, lines 227-236: the loop over the fetched rows from row i
RECURSIVE FetchSeekdataLoop(_, _, _, _, _)
FetchSeekdataLoop(seekdata, cl, i, index_stop, branches) ==
    IF i >= Min(index_stop, Len(cl.file)) THEN seekdata
    ELSE LET data == At(cl.file, i).tree
             old == IF i \in DOMAIN seekdata THEN seekdata[i] ELSE <<>>
             new == [name \in (DOMAIN old) \cup Range(branches) |->
                        IF name \in DOMAIN old THEN old[name] ELSE data[name]]
         IN  FetchSeekdataLoop(Put(seekdata, i, new), cl, i + 1, index_stop,
                               branches)

\* _fetch_seekdata, lines 219-236, when the store serves line 225
FetchSeekdata(seekdata, cl, index_start, index_stop, branches) ==
    IF \A i \in PyRange(index_start, index_stop) :
            Range(branches) \subseteq SeekNames(seekdata, i)
    THEN seekdata
    ELSE FetchSeekdataLoop(seekdata, cl, index_start, index_stop, branches)

\* whether _fetch_seekdata asks the store (line 225)
SeekdataAsksStore(seekdata, index_start, index_stop, branches) ==
    ~(\A i \in PyRange(index_start, index_stop) :
            Range(branches) \subseteq SeekNames(seekdata, i))

\* line 225: the fields branches of "tree" in the rows index_start:index_stop
SeekdataRequests(seekdata, cl, index_start, index_stop, branches) ==
    IF ~SeekdataAsksStore(seekdata, index_start, index_stop, branches) THEN {}
    ELSE {Request("tree", i, "", Range(branches) \subseteq SeekNames(seekdata, i)) :
            i \in PyRange(index_start, Min(index_stop, Len(cl.file)))}

(***************************************************************************)
(* The facade (_FakeTree, _FakeBranch).                                    *)
(***************************************************************************)
\* _FakeBranch.__init__, lines 312-317; None is the empty sequence
FakeBranch == [interpretation |-> <<>>, entry_offsets |-> <<0>>]

\* _FakeTree.__init__, lines 388-405
FakeTree(keys, entry_start, entry_stop, index_start, index_stop) ==
    [live |-> TRUE,
     entry_start |-> entry_start, entry_stop |-> entry_stop,
     index_start |-> index_start, index_stop |-> index_stop,
     branches |-> [name \in Range(keys) |-> FakeBranch],
     branches_touched |-> <<>>,
     fetched |-> FALSE,
     range_to_file_index |-> <<>>]

NoTree == [FakeTree(<<>>, 0, 0, 0, 0) EXCEPT !.live = FALSE]

\* the TypeError of lines 341-342
InterpretationChanged(name, filename, entry_stop) ==
    [kind |-> "TypeError", branch |-> name, file |-> filename,
     entry_stop |-> entry_stop]

KeyError(key) == [kind |-> "KeyError", branch |-> key, file |-> <<>>, entry_stop |-> 0]

\* lines 336-342: the loop from file i with self._interpretation = cur
RECURSIVE InterpretationLoop(_, _, _, _, _, _)
InterpretationLoop(c, offsets, name, i, index_stop, cur) ==
    IF i >= index_stop THEN [cur |-> cur, raised |-> <<>>]
    ELSE IF i \notin DOMAIN c.eras
            \/ c.eras[i] \notin DOMAIN c.interpretations
            \/ name \notin DOMAIN c.interpretations[c.eras[i]]
    THEN [cur |-> cur, raised |-> <<KeyError(name)>>]
    ELSE LET interp == c.interpretations[c.eras[i]][name]
         IN  IF cur = <<>>
             THEN InterpretationLoop(c, offsets, name, i + 1, index_stop, <<interp>>)
             ELSE IF cur[1].cache_key # interp.cache_key
             THEN [cur |-> cur,
                   raised |-> <<InterpretationChanged(name, c.filenames[i],
                                                      At(offsets, i))>>]
             ELSE InterpretationLoop(c, offsets, name, i + 1, index_stop, cur)

\* the test of lines 364-368
BasketSelected(global_start, global_stop, entry_start, entry_stop) ==
    /\ global_stop > global_start
    /\ entry_start < global_stop
    /\ global_start <= entry_stop

\* lines 361-379: the baskets of file i from basket k
RECURSIVE BasketLoop(_, _, _, _, _, _, _)
BasketLoop(acc, baskets, k, i, offset, entry_start, entry_stop) ==
    IF k > Len(baskets) THEN acc
    ELSE LET global_stop == offset + baskets[k].stop
             byte_start == baskets[k].seek
             byte_stop == byte_start + baskets[k].bytes
             hit == BasketSelected(acc.global_start, global_stop,
                                   entry_start, entry_stop)
         IN  BasketLoop(
                [out |-> IF hit THEN Append(acc.out,
                                        <<Len(acc.out), <<byte_start, byte_stop>>>>)
                         ELSE acc.out,
                 entry_offsets |->
                    IF hit THEN Append(acc.entry_offsets,
                                    Last(acc.entry_offsets)
                                        + (global_stop - acc.global_start))
                    ELSE acc.entry_offsets,
                 range_to_file_index |->
                    IF hit THEN Append(acc.range_to_file_index, i)
                    ELSE acc.range_to_file_index,
                 raised |-> acc.raised,
                 global_start |-> global_stop],
                baskets, k + 1, i, offset, entry_start, entry_stop)

\* lines 355-381: the files from index i
RECURSIVE RangesLoop(_, _, _, _, _, _, _, _)
RangesLoop(acc, seekdata, offsets, name, i, index_stop, entry_start, entry_stop) ==
    IF i >= index_stop THEN acc
    ELSE IF i \notin DOMAIN seekdata \/ name \notin DOMAIN seekdata[i]
    THEN [acc EXCEPT !.raised = <<KeyError(name)>>]
    ELSE RangesLoop(
            BasketLoop([acc EXCEPT !.global_start = At(offsets, i)],
                       seekdata[i][name], 1, i, At(offsets, i),
                       entry_start, entry_stop),
            seekdata, offsets, name, i + 1, index_stop, entry_start, entry_stop)

\* arrays, lines 277-282: one source per file index of the range
OpenSources(index_start, index_stop) ==
    [i \in PyRange(index_start, index_stop) |-> "open"]

\* the finally clause without its loop
KeepSources(srcs) == srcs

\* arrays, lines 307-309: source.close() for every source
CloseSources(srcs) == [i \in DOMAIN srcs |-> "closed"]

\* file_index_to_ranges.get(file_index): the position of the entry, 0 for None
GroupOf(groups, file_index) ==
    IF \E g \in 1..Len(groups) : groups[g].file_index = file_index
    THEN CHOOSE g \in 1..Len(groups) : groups[g].file_index = file_index
    ELSE 0

\* chunks with every range given to the source of the first file index
RECURSIVE GroupAllInOne(_, _, _)
GroupAllInOne(groups, file_indices, ranges) ==
    IF file_indices = <<>> \/ ranges = <<>> THEN groups
    ELSE GroupAllInOne(
            IF groups = <<>>
            THEN <<[file_index |-> file_indices[1], some_ranges |-> <<ranges[1]>>]>>
            ELSE [groups EXCEPT ![1].some_ranges = Append(@, ranges[1])],
            Tail(file_indices), Tail(ranges))

\* chunks, lines 475-486: zip(tree._range_to_file_index, ranges) grouped by
\* file index in order of first appearance; each group goes to
\* self._sources[file_index].chunks
RECURSIVE GroupByFile(_, _, _)
GroupByFile(groups, file_indices, ranges) ==
    IF file_indices = <<>> \/ ranges = <<>> THEN groups
    ELSE GroupByFile(
            IF GroupOf(groups, file_indices[1]) = 0
            THEN Append(groups, [file_index |-> file_indices[1],
                                 some_ranges |-> <<ranges[1]>>])
            ELSE [groups EXCEPT ![GroupOf(groups, file_indices[1])].some_ranges =
                                    Append(@, ranges[1])],
            Tail(file_indices), Tail(ranges))

(***************************************************************************)
(* State.                                                                  *)
(***************************************************************************)
VARIABLES
    \* CollectedData (populate.py lines 13-21)
    prefix_depth, lock, eras, entry_offsets, prefix_eras, lookup_table,
    \* each calling thread's position in collect and its local variables
    thread,
    \* history: the file of every collect call started, how each call ended,
    \* and the call that appended each offset and each lookup row
    calls, outcome, offOwner, rowOwner,
    \* the last result of to_array, with the history at that instant
    snapshot,
    \* concatenate: its argument and its result (<<>> before the call)
    arrays, final,
    \* the index array in the store, and TiledUproot (extract.py lines 34-49)
    client, _keys, _items, _offsets, _treename, _prefix, _filenames, _eras,
    _treenames, _interpretations, _seekdata,
    \* the items asked from the store by _fetch_filedata and _fetch_seekdata,
    \* and the direct calls of these two made so far
    requests, fetches,
    \* what HasBranches.arrays holds for the arrays call in progress: the
    \* ranges the branches returned, the branches asked, and the chunks call
    read,
    \* the _FakeTree of the arrays call in progress and its open sources
    fake, sources,
    \* the result of the last call, the arrays calls so far, and the calls
    \* made on the branches of the facade tree
    ret, reads, ops

collectorVars ==
    <<prefix_depth, lock, eras, entry_offsets, prefix_eras, lookup_table,
      thread, calls, outcome, offOwner, rowOwner, snapshot>>

concatVars == <<arrays, final>>

cacheVars ==
    <<_prefix, _filenames, _eras, _treenames, _interpretations>>

engineVars ==
    <<client, _keys, _items, _offsets, _treename, cacheVars, _seekdata,
      requests, fetches, read, fake, sources, ret, reads, ops>>

vars == <<collectorVars, concatVars, engineVars>>

Threads == {"t1", "t2"}

Idle == [pc |-> "idle", file |-> "fa", call |-> 0, era |-> 0, prefix_era |-> 0]

NoSnapshot ==
    [taken |-> FALSE, array |-> IndexArray(<<0>>, <<>>, <<>>, <<>>),
     offOwner |-> <<>>, rowOwner |-> <<>>]

NoReturn == [op |-> "none", branch |-> "", args |-> <<>>, raised |-> <<>>,
             value |-> <<>>]

\* HasBranches.arrays before any branch was asked for its ranges
NoRead == [ranges |-> <<>>, called |-> <<>>, raised |-> FALSE, chunks |-> <<>>]

\* no concatenate call and no engine
InitNoConcat ==
    /\ arrays = <<>>
    /\ final = <<>>

InitNoEngine ==
    /\ client = IndexArray(<<0>>, <<>>, <<>>, <<>>)
    /\ _keys = <<>>
    /\ _items = <<>>
    /\ _offsets = <<0>>
    /\ _treename = ""
    /\ _prefix = <<>>
    /\ _filenames = <<>>
    /\ _eras = <<>>
    /\ _treenames = <<>>
    /\ _interpretations = <<>>
    /\ _seekdata = <<>>
    /\ requests = {}
    /\ fetches = 0
    /\ read = NoRead
    /\ fake = NoTree
    /\ sources = <<>>
    /\ ret = NoReturn
    /\ reads = 0
    /\ ops = 0

\* CollectedData.__init__, lines 13-21
InitCollector ==
    /\ InitNoConcat
    /\ InitNoEngine
    /\ prefix_depth \in 1..MaxPrefixDepth
    /\ lock = "free"
    /\ eras = <<>>
    /\ entry_offsets = <<0>>
    /\ prefix_eras = <<>>
    /\ lookup_table = <<>>
    /\ thread = [t \in Threads |-> Idle]
    /\ calls = <<>>
    /\ outcome = <<>>
    /\ offOwner = <<>>
    /\ rowOwner = <<>>
    /\ snapshot = NoSnapshot

Finish(t, how) ==
    /\ thread' = [thread EXCEPT ![t] = Idle]
    /\ outcome' = [outcome EXCEPT ![thread[t].call] = how]

(***************************************************************************)
(* collect (populate.py lines 23-93), one action per step a concurrent     *)
(* caller can observe.                                                     *)
(***************************************************************************)
\* lines 24-55: open the file, find the tree, read the branches
CollectOpen(t, f) ==
    /\ thread[t].pc = "idle"
    /\ Len(calls) < MaxCalls
    /\ calls' = Append(calls, f)
    /\ IF Disk[f].status = "noopen"
       THEN /\ outcome' = Append(outcome, "OSError")
            /\ thread' = thread
       ELSE IF Disk[f].status = "ok" /\ ~BasketsConsistent(Disk[f])
       THEN /\ outcome' = Append(outcome, "AssertionError")
            /\ thread' = thread
       ELSE /\ outcome' = Append(outcome, "running")
            /\ thread' = [thread EXCEPT ![t] =
                            [Idle EXCEPT !.pc = "parsed", !.file = f,
                                         !.call = Len(calls) + 1]]
    /\ UNCHANGED <<prefix_depth, lock, eras, entry_offsets, prefix_eras,
                   lookup_table, offOwner, rowOwner, snapshot>>
    /\ UNCHANGED <<concatVars, engineVars>>

\* line 57, num_entries == 0: return
CollectSkip(t) ==
    /\ thread[t].pc = "parsed"
    /\ NumEntries(Disk[thread[t].file]) = 0
    /\ Finish(t, "returned")
    /\ UNCHANGED <<prefix_depth, lock, eras, entry_offsets, prefix_eras,
                   lookup_table, calls, offOwner, rowOwner, snapshot>>
    /\ UNCHANGED <<concatVars, engineVars>>

\* lines 57-58, num_entries > 0: with self.lock
CollectLock(t) ==
    /\ thread[t].pc = "parsed"
    /\ NumEntries(Disk[thread[t].file]) > 0
    /\ lock = "free"
    /\ lock' = t
    /\ thread' = [thread EXCEPT ![t].pc = "era"]
    /\ UNCHANGED <<prefix_depth, eras, entry_offsets, prefix_eras,
                   lookup_table, calls, outcome, offOwner, rowOwner, snapshot>>
    /\ UNCHANGED <<concatVars, engineVars>>

\* lines 59-68
CollectEra(t) ==
    /\ thread[t].pc = "era"
    /\ eras' = ErasGetOrInsert(eras, TreeName, Disk[thread[t].file])
    /\ thread' = [thread EXCEPT
                    ![t].pc = "offset",
                    ![t].era = ErasGet(eras', EraKey(TreeName,
                                           Disk[thread[t].file].branches))]
    /\ UNCHANGED <<prefix_depth, lock, entry_offsets, prefix_eras,
                   lookup_table, calls, outcome, offOwner, rowOwner, snapshot>>
    /\ UNCHANGED <<concatVars, engineVars>>

\* line 70
CollectOffset(t) ==
    /\ thread[t].pc = "offset"
    /\ entry_offsets' = OffsetsAppend(entry_offsets,
                                      NumEntries(Disk[thread[t].file]))
    /\ offOwner' = Append(offOwner, thread[t].call)
    /\ thread' = [thread EXCEPT ![t].pc = "prefix"]
    /\ UNCHANGED <<prefix_depth, lock, eras, prefix_eras, lookup_table,
                   calls, outcome, rowOwner, snapshot>>
    /\ UNCHANGED <<concatVars, engineVars>>

\* lines 72-82; the assert of line 73 leaves the with block, releasing the lock
CollectPrefix(t) ==
    /\ thread[t].pc = "prefix"
    /\ IF DepthOk(Disk[thread[t].file].filename, prefix_depth)
       THEN /\ prefix_eras' = PrefixGetOrInsert(prefix_eras,
                                Prefix(Disk[thread[t].file].filename, prefix_depth))
            /\ thread' = [thread EXCEPT
                            ![t].pc = "row",
                            ![t].prefix_era =
                                PrefixGet(prefix_eras',
                                    Prefix(Disk[thread[t].file].filename,
                                           prefix_depth))]
            /\ UNCHANGED <<lock, outcome>>
       ELSE /\ Finish(t, "AssertionError")
            /\ lock' = "free"
            /\ UNCHANGED prefix_eras
    /\ UNCHANGED <<prefix_depth, eras, entry_offsets, lookup_table, calls,
                   offOwner, rowOwner, snapshot>>
    /\ UNCHANGED <<concatVars, engineVars>>

\* lines 84-93, and the end of the with block
CollectRow(t) ==
    /\ thread[t].pc = "row"
    /\ lookup_table' = Append(lookup_table,
                          LookupRow(eras[thread[t].era],
                                    prefix_eras[thread[t].prefix_era],
                                    Disk[thread[t].file], prefix_depth))
    /\ rowOwner' = Append(rowOwner, thread[t].call)
    /\ lock' = "free"
    /\ Finish(t, "returned")
    /\ UNCHANGED <<prefix_depth, eras, entry_offsets, prefix_eras, calls,
                   offOwner, snapshot>>
    /\ UNCHANGED <<concatVars, engineVars>>

\* to_array, lines 95-113: a snapshot taken while holding the lock
ToArray ==
    /\ lock = "free"
    /\ snapshot' = [taken |-> TRUE,
                    array |-> IndexArray(entry_offsets, lookup_table, eras,
                                         prefix_eras),
                    offOwner |-> offOwner, rowOwner |-> rowOwner]
    /\ UNCHANGED <<prefix_depth, lock, eras, entry_offsets, prefix_eras,
                   lookup_table, thread, calls, outcome, offOwner, rowOwner>>
    /\ UNCHANGED <<concatVars, engineVars>>

NextCollector ==
    \/ \E t \in Threads, f \in FileIds : CollectOpen(t, f)
    \/ \E t \in Threads : CollectSkip(t)
    \/ \E t \in Threads : CollectLock(t)
    \/ \E t \in Threads : CollectEra(t)
    \/ \E t \in Threads : CollectOffset(t)
    \/ \E t \in Threads : CollectPrefix(t)
    \/ \E t \in Threads : CollectRow(t)
    \/ ToArray

SpecCollector == InitCollector /\ [][NextCollector]_vars


(***************************************************************************)
(* concatenate applied to index arrays.                                    *)
(***************************************************************************)
InitNoCollector ==
    /\ prefix_depth = 1
    /\ lock = "free"
    /\ eras = <<>>
    /\ entry_offsets = <<0>>
    /\ prefix_eras = <<>>
    /\ lookup_table = <<>>
    /\ thread = [t \in Threads |-> Idle]
    /\ calls = <<>>
    /\ outcome = <<>>
    /\ offOwner = <<>>
    /\ rowOwner = <<>>
    /\ snapshot = NoSnapshot

InitConcat ==
    /\ InitNoCollector
    /\ InitNoEngine
    /\ arrays \in UNION {[1..n -> IndexArrays(MaxConcatFiles)] : n \in 0..MaxArrays}
    /\ final = <<>>

\* final = concatenate(arrays)
ConcatenateCall ==
    /\ final = <<>>
    /\ final' = <<Concatenate(arrays)>>
    /\ UNCHANGED <<arrays, collectorVars, engineVars>>

NextConcat == ConcatenateCall

SpecConcat == InitConcat /\ [][NextConcat]_vars

(***************************************************************************)
(* TiledUproot over an index array in the store.                           *)
(***************************************************************************)
\* TiledUproot.__init__, lines 34-49 (line 43 needs at least one era), on
\* an index array built from up to maxlen collect calls
InitEngineOver(maxlen) ==
    /\ InitNoCollector
    /\ InitNoConcat
    /\ client \in {a \in IndexArrays(maxlen) : Len(a.era) > 0}
    /\ _keys = <<>>
    /\ _items = <<>>
    /\ _offsets = client.offsets
    /\ _treename = Last(client.era).treename
    /\ _prefix = <<>>
    /\ _filenames = <<>>
    /\ _eras = <<>>
    /\ _treenames = <<>>
    /\ _interpretations = <<>>
    /\ _seekdata = <<>>
    /\ requests = {}
    /\ fetches = 0
    /\ read = NoRead
    /\ fake = NoTree
    /\ sources = <<>>
    /\ ret = NoReturn
    /\ reads = 0
    /\ ops = 0

InitEngine == InitEngineOver(MaxFiles)

\* the constructor returned: there is a TiledUproot instance
Constructed == Len(client.era) > 0

\* num_entries, lines 171-173
num_entries == Last(_offsets)

Caches ==
    [prefix |-> _prefix, filenames |-> _filenames, eras |-> _eras,
     treenames |-> _treenames, interpretations |-> _interpretations,
     requests |-> requests]

\* a call of _file_index_range, lines 180-189, with any two integers
FileIndexRangeCall(entry_start, entry_stop) ==
    /\ ret' = [NoReturn EXCEPT
                !.op = "file_index_range",
                !.args = <<entry_start, entry_stop>>,
                !.value = FileIndexRange(_offsets, entry_start, entry_stop)]
    /\ UNCHANGED <<client, _keys, _items, _offsets, _treename, cacheVars,
                   _seekdata, requests, fetches, read, fake, sources, reads, ops>>
    /\ UNCHANGED <<collectorVars, concatVars>>

NextRange ==
    \E entry_start, entry_stop \in (-1)..(num_entries + 1) :
        FileIndexRangeCall(entry_start, entry_stop)

SpecRange == InitEngine /\ [][NextRange]_vars

\* a call of keys, lines 63-90
KeysCall ==
    /\ Constructed
    /\ _keys' = <<KeysResult(_keys, _items, client)>>
    /\ ret' = [NoReturn EXCEPT !.op = "keys",
                               !.value = KeysResult(_keys, _items, client)]
    /\ UNCHANGED <<client, _items, _offsets, _treename, cacheVars, _seekdata,
                   requests, fetches, read, fake, sources, reads, ops>>
    /\ UNCHANGED <<collectorVars, concatVars>>

\* a call of items, lines 94-123
ItemsCall ==
    /\ Constructed
    /\ _items' = IF _items = <<>> THEN <<Items(client)>> ELSE _items
    /\ ret' = [NoReturn EXCEPT !.op = "items", !.value = _items'[1]]
    /\ UNCHANGED <<client, _keys, _offsets, _treename, cacheVars, _seekdata,
                   requests, fetches, read, fake, sources, reads, ops>>
    /\ UNCHANGED <<collectorVars, concatVars>>

NextKeys == KeysCall \/ ItemsCall

SpecKeys == InitEngine /\ [][NextKeys]_vars

\* a call of _fetch_filedata, lines 191-217, with a range of file indices
FetchFiledataCall(index_start, index_stop) ==
    /\ fetches < MaxFetches
    /\ fetches' = fetches + 1
    /\ LET c == FetchFiledata(Caches, client, index_start, index_stop)
       IN  /\ _prefix' = c.prefix
           /\ _filenames' = c.filenames
           /\ _eras' = c.eras
           /\ _treenames' = c.treenames
           /\ _interpretations' = c.interpretations
           /\ requests' = c.requests
    /\ ret' = [NoReturn EXCEPT !.op = "fetch_filedata",
                               !.args = <<index_start, index_stop>>]
    /\ UNCHANGED <<client, _keys, _items, _offsets, _treename, _seekdata, read,
                   fake, sources, reads, ops>>
    /\ UNCHANGED <<collectorVars, concatVars>>

NextFiledata ==
    \E index_start \in 0..Len(client.file) :
        \E index_stop \in index_start..Len(client.file) :
            FetchFiledataCall(index_start, index_stop)

SpecFiledata == InitEngineOver(MaxFetchFiles) /\ [][NextFiledata]_vars

\* a call of _fetch_seekdata, lines 219-236, with a range of file indices
\* and a list of branch names; line 225 raises when a row lacks a field
FetchSeekdataCall(index_start, index_stop, branches) ==
    /\ fetches < MaxFetches
    /\ fetches' = fetches + 1
    /\ requests' = requests \cup SeekdataRequests(_seekdata, client, index_start,
                                                  index_stop, branches)
    /\ IF /\ SeekdataAsksStore(_seekdata, index_start, index_stop, branches)
          /\ ~SeekFetchable(client, index_start, index_stop, branches)
       THEN /\ _seekdata' = _seekdata
            /\ ret' = [NoReturn EXCEPT
                        !.op = "fetch_seekdata",
                        !.args = <<index_start, index_stop, branches>>,
                        !.raised = <<KeyError("")>>]
       ELSE /\ _seekdata' = FetchSeekdata(_seekdata, client, index_start,
                                          index_stop, branches)
            /\ ret' = [NoReturn EXCEPT
                        !.op = "fetch_seekdata",
                        !.args = <<index_start, index_stop, branches>>]
    /\ UNCHANGED <<client, _keys, _items, _offsets, _treename, cacheVars, read,
                   fake, sources, reads, ops>>
    /\ UNCHANGED <<collectorVars, concatVars>>

\* the lists of branch names a caller passes: some of the keys, in key order
BranchLists ==
    {SelectSeq(Keys(client), LAMBDA name : name \in S) :
        S \in SUBSET Range(Keys(client))}

NextSeekdata ==
    \E branches \in BranchLists :
        \E index_start \in 0..Len(client.file) :
            \E index_stop \in index_start..Len(client.file) :
                FetchSeekdataCall(index_start, index_stop, branches)

SpecSeekdata == InitEngineOver(MaxFetchFiles) /\ [][NextSeekdata]_vars

\* arrays, lines 262-286, up to the construction of the facade tree;
\* entry_start and entry_stop are as _regularize_entries_start_stop
\* returns them: 0 <= entry_start <= entry_stop <= num_entries
ArraysBegin(entry_start, entry_stop) ==
    /\ ~fake.live
    /\ reads < MaxReads
    /\ LET r == FileIndexRange(_offsets, entry_start, entry_stop)
           keys == KeysResult(_keys, _items, client)
           c == FetchFiledata(Caches, client, r[1], r[2])
       IN  /\ _keys' = <<keys>>
           /\ _prefix' = c.prefix
           /\ _filenames' = c.filenames
           /\ _eras' = c.eras
           /\ _treenames' = c.treenames
           /\ _interpretations' = c.interpretations
           /\ requests' = c.requests
           /\ sources' = OpenSources(r[1], r[2])
           /\ fake' = FakeTree(keys, entry_start, entry_stop, r[1], r[2])
    /\ reads' = reads + 1
    /\ ops' = 0
    /\ read' = NoRead
    /\ ret' = [NoReturn EXCEPT !.op = "arrays",
                               !.args = <<entry_start, entry_stop>>]
    /\ UNCHANGED <<client, _items, _offsets, _treename, _seekdata, fetches>>
    /\ UNCHANGED <<collectorVars, concatVars>>

\* arrays, lines 262-282 and 307-309: the source of file failed cannot be
\* opened; the finally clause closes the sources opened before it
ArraysOpenFails(entry_start, entry_stop, failed) ==
    /\ ~fake.live
    /\ reads < MaxReads
    /\ LET r == FileIndexRange(_offsets, entry_start, entry_stop)
           keys == KeysResult(_keys, _items, client)
           c == FetchFiledata(Caches, client, r[1], r[2])
       IN  /\ failed \in PyRange(r[1], r[2])
           /\ _keys' = <<keys>>
           /\ _prefix' = c.prefix
           /\ _filenames' = c.filenames
           /\ _eras' = c.eras
           /\ _treenames' = c.treenames
           /\ _interpretations' = c.interpretations
           /\ requests' = c.requests
           /\ sources' = CloseSources(OpenSources(r[1], failed))
    /\ reads' = reads + 1
    /\ ret' = [NoReturn EXCEPT !.op = "arrays",
                               !.args = <<entry_start, entry_stop>>,
                               !.raised = <<"OSError">>]
    /\ UNCHANGED <<client, _items, _offsets, _treename, _seekdata, fetches,
                   read, fake, ops>>
    /\ UNCHANGED <<collectorVars, concatVars>>

\* _FakeBranch.interpretation, lines 331-346
Interpretation(name) ==
    /\ fake.live
    /\ ops < MaxOps
    /\ name \in DOMAIN fake.branches
    /\ ops' = ops + 1
    /\ IF fake.branches[name].interpretation # <<>>
       THEN /\ ret' = [NoReturn EXCEPT
                        !.op = "interpretation", !.branch = name,
                        !.value = fake.branches[name].interpretation]
            /\ fake' = fake
            /\ read' = read
       ELSE LET r == InterpretationLoop(Caches, _offsets, name, fake.index_start,
                                        fake.index_stop, <<>>)
            IN  /\ fake' = [fake EXCEPT
                              !.branches[name].interpretation = r.cur,
                              !.branches_touched =
                                  IF r.raised = <<>> THEN Append(@, name) ELSE @]
                /\ read' = [read EXCEPT !.raised = @ \/ r.raised # <<>>]
                /\ ret' = [NoReturn EXCEPT
                            !.op = "interpretation", !.branch = name,
                            !.raised = r.raised,
                            !.value = IF r.raised = <<>> THEN r.cur ELSE <<>>]
    /\ UNCHANGED <<client, _keys, _items, _offsets, _treename, cacheVars,
                   _seekdata, requests, fetches, sources, reads>>
    /\ UNCHANGED <<collectorVars, concatVars>>

\* _FakeBranch.entries_to_ranges_or_baskets, lines 352-381, called with the
\* facade tree's entry range, and _FakeTree.maybe_fetch_seekdata, lines 440-445
EntriesToRanges(name) ==
    /\ fake.live
    /\ ops < MaxOps
    /\ name \in DOMAIN fake.branches
    /\ ops' = ops + 1
    /\ requests' =
        IF fake.fetched THEN requests
        ELSE requests \cup SeekdataRequests(_seekdata, client, fake.index_start,
                                            fake.index_stop, fake.branches_touched)
    /\ IF /\ ~fake.fetched
          /\ SeekdataAsksStore(_seekdata, fake.index_start, fake.index_stop,
                               fake.branches_touched)
          /\ ~SeekFetchable(client, fake.index_start, fake.index_stop,
                            fake.branches_touched)
       THEN /\ ret' = [NoReturn EXCEPT
                        !.op = "entries_to_ranges_or_baskets", !.branch = name,
                        !.raised = <<KeyError(name)>>]
            /\ read' = [read EXCEPT !.called = Append(@, name), !.raised = TRUE]
            /\ UNCHANGED <<_seekdata, fake>>
       ELSE LET seekdata == IF fake.fetched THEN _seekdata
                            ELSE FetchSeekdata(_seekdata, client, fake.index_start,
                                               fake.index_stop, fake.branches_touched)
                acc == RangesLoop(
                          [out |-> <<>>,
                           entry_offsets |-> fake.branches[name].entry_offsets,
                           range_to_file_index |-> fake.range_to_file_index,
                           raised |-> <<>>,
                           global_start |-> 0],
                          seekdata, _offsets, name, fake.index_start,
                          fake.index_stop, fake.entry_start, fake.entry_stop)
            IN  /\ _seekdata' = seekdata
                /\ fake' = [fake EXCEPT
                              !.fetched = TRUE,
                              !.branches[name].entry_offsets = acc.entry_offsets,
                              !.range_to_file_index = acc.range_to_file_index]
                /\ read' = [read EXCEPT
                              !.called = Append(@, name),
                              !.raised = @ \/ acc.raised # <<>>,
                              !.ranges = IF acc.raised # <<>> THEN @
                                         ELSE @ \o [k \in 1..Len(acc.out) |->
                                                        acc.out[k][2]]]
                /\ ret' = [NoReturn EXCEPT
                            !.op = "entries_to_ranges_or_baskets", !.branch = name,
                            !.raised = acc.raised,
                            !.value = IF acc.raised = <<>> THEN acc.out ELSE <<>>]
    /\ UNCHANGED <<client, _keys, _items, _offsets, _treename, cacheVars,
                   fetches, sources, reads>>
    /\ UNCHANGED <<collectorVars, concatVars>>

\* _FakeSource.chunks, lines 470-488, called by HasBranches.arrays with the
\* ranges the branches returned, once every touched branch was asked once
\* and none of the calls raised
Chunks ==
    /\ fake.live
    /\ read.chunks = <<>>
    /\ ~read.raised
    /\ Range(read.called) = Range(fake.branches_touched)
    /\ Len(read.called) = Cardinality(Range(read.called))
    /\ IF Len(fake.range_to_file_index) # Len(read.ranges)
       THEN /\ read' = [read EXCEPT !.raised = TRUE]
            /\ ret' = [NoReturn EXCEPT !.op = "chunks",
                                       !.raised = <<"AssertionError">>]
       ELSE /\ read' = [read EXCEPT !.chunks =
                            <<GroupByFile(<<>>, fake.range_to_file_index,
                                          read.ranges)>>]
            /\ ret' = [NoReturn EXCEPT
                        !.op = "chunks",
                        !.value = GroupByFile(<<>>, fake.range_to_file_index,
                                              read.ranges)]
    /\ UNCHANGED <<client, _keys, _items, _offsets, _treename, cacheVars,
                   _seekdata, requests, fetches, fake, sources, reads, ops>>
    /\ UNCHANGED <<collectorVars, concatVars>>

\* arrays, lines 288-309: HasBranches.arrays returns or raises, and the
\* finally clause closes the sources
ArraysEnd(failed) ==
    /\ fake.live
    /\ sources' = CloseSources(sources)
    /\ fake' = NoTree
    /\ read' = NoRead
    /\ ops' = 0
    /\ ret' = [NoReturn EXCEPT
                !.op = "arrays_end",
                !.raised = IF failed \/ read.raised THEN <<"error">> ELSE <<>>]
    /\ UNCHANGED <<client, _keys, _items, _offsets, _treename, cacheVars,
                   _seekdata, requests, fetches, reads>>
    /\ UNCHANGED <<collectorVars, concatVars>>

NextFacade ==
    \/ \E entry_start \in 0..num_entries :
        \E entry_stop \in entry_start..num_entries :
            ArraysBegin(entry_start, entry_stop)
    \/ \E entry_start \in 0..num_entries :
        \E entry_stop \in entry_start..num_entries :
            \E failed \in 0..(Len(client.file) - 1) :
                ArraysOpenFails(entry_start, entry_stop, failed)
    \/ \E name \in DOMAIN fake.branches : Interpretation(name)
    \/ \E name \in DOMAIN fake.branches : EntriesToRanges(name)
    \/ Chunks
    \/ \E failed \in BOOLEAN : ArraysEnd(failed)

SpecFacade == InitEngine /\ [][NextFacade]_vars

\* arrays calls alone: what HasBranches.arrays does between the opening of
\* the sources and the finally clause does not touch the sources
NextSources ==
    \/ \E entry_start \in 0..num_entries :
        \E entry_stop \in entry_start..num_entries :
            ArraysBegin(entry_start, entry_stop)
    \/ \E entry_start \in 0..num_entries :
        \E entry_stop \in entry_start..num_entries :
            \E failed \in 0..(Len(client.file) - 1) :
                ArraysOpenFails(entry_start, entry_stop, failed)
    \/ \E failed \in BOOLEAN : ArraysEnd(failed)

SpecSources == InitEngineOver(MaxFetchFiles) /\ [][NextSources]_vars

\* TiledUproot(name, client) on the array that to_array returned, lines
\* 34-49; line 43 needs an era
Open ==
    /\ snapshot.taken
    /\ Len(snapshot.array.era) > 0
    /\ client' = snapshot.array
    /\ _keys' = <<>>
    /\ _items' = <<>>
    /\ _offsets' = snapshot.array.offsets
    /\ _treename' = Last(snapshot.array.era).treename
    /\ _prefix' = <<>>
    /\ _filenames' = <<>>
    /\ _eras' = <<>>
    /\ _treenames' = <<>>
    /\ _interpretations' = <<>>
    /\ _seekdata' = <<>>
    /\ ret' = [NoReturn EXCEPT !.op = "open"]
    /\ UNCHANGED <<requests, fetches, read, fake, sources, reads, ops>>
    /\ UNCHANGED <<collectorVars, concatVars>>

\* one caller: collect calls one after the other, to_array, then the
\* lookup engine on the result
NextRoundTrip ==
    \/ \E f \in FileIds : CollectOpen("t1", f)
    \/ CollectSkip("t1")
    \/ CollectLock("t1")
    \/ CollectEra("t1")
    \/ CollectOffset("t1")
    \/ CollectPrefix("t1")
    \/ CollectRow("t1")
    \/ ToArray
    \/ Open
    \/ KeysCall

SpecRoundTrip == InitCollector /\ [][NextRoundTrip]_vars

(***************************************************************************)
(* Collector properties.                                                   *)
(***************************************************************************)
\* the entry count a file on disk contributes (0 without a readable tree)
EntriesOnDisk(f) == IF Disk[f].status = "ok" THEN Disk[f].num_entries ELSE 0

\* the (treename, name/descriptor-key pairs) schema of a file on disk
SchemaOnDisk(f) ==
    <<TreeName,
      {<<Disk[f].branches[i].name, Disk[f].branches[i].interpretation.cache_key>> :
          i \in 1..Len(Disk[f].branches)}>>

\* the files whose lookup row was appended, in row order
Committed == [k \in 1..Len(rowOwner) |-> calls[rowOwner[k]]]

AllReturned == \A i \in 1..Len(outcome) : outcome[i] = "returned"

\* C1: after collect calls that all returned normally, entry_offsets starts
\* with 0, never decreases, has one element per file with entries > 0 plus
\* one, steps by the entry count of the i-th committed file, and ends with
\* the sum of the entry counts of the files with entries > 0.
C1_OffsetsArePrefixSums ==
    AllReturned =>
        /\ entry_offsets[1] = 0
        /\ \A k \in 1..(Len(entry_offsets) - 1) :
                entry_offsets[k] <= entry_offsets[k + 1]
        /\ Len(entry_offsets) =
                1 + Cardinality({i \in 1..Len(calls) : EntriesOnDisk(calls[i]) > 0})
        /\ Len(Committed) = Len(entry_offsets) - 1
        /\ \A k \in 1..(Len(entry_offsets) - 1) :
                entry_offsets[k + 1] - entry_offsets[k] = EntriesOnDisk(Committed[k])
        /\ Last(entry_offsets) =
                SumSeq([i \in 1..Len(calls) |-> EntriesOnDisk(calls[i])])

\* three calls returned, two of them committed files of different sizes and
\* one contributed nothing
C1_Witness ==
    /\ AllReturned
    /\ Len(calls) = 3
    /\ Len(entry_offsets) = 3
    /\ entry_offsets[2] # entry_offsets[3] - entry_offsets[2]

\* C2: every to_array snapshot has one offset more than lookup rows, its
\* k-th row and k-th offset increment come from the same collect call, and
\* every row's era and prefix index is below the snapshot's number of era
\* and prefix records.
C2_SnapshotsAreConsistent ==
    snapshot.taken =>
        /\ Len(snapshot.array.offsets) = Len(snapshot.array.file) + 1
        /\ snapshot.offOwner = snapshot.rowOwner
        /\ \A k \in 1..Len(snapshot.array.file) :
                /\ snapshot.array.file[k].era < Len(snapshot.array.era)
                /\ snapshot.array.file[k].prefix < Len(snapshot.array.prefix)

\* C3: between commits, two committed files have the same era index exactly
\* when their schemas are equal, there is one era record per distinct schema
\* of the committed files and one prefix record per distinct prefix, and
\* the indices are 0..n-1 in order of first commit.
C3_ErasMatchCommittedSchemas ==
    lock = "free" =>
        /\ \A j, k \in 1..Len(lookup_table) :
                (lookup_table[j].era = lookup_table[k].era)
                    <=> (SchemaOnDisk(Committed[j]) = SchemaOnDisk(Committed[k]))
        /\ Len(eras) =
                Cardinality({SchemaOnDisk(Committed[k]) : k \in 1..Len(Committed)})
        /\ Len(prefix_eras) =
                Cardinality({Prefix(Disk[Committed[k]].filename, prefix_depth) :
                                k \in 1..Len(Committed)})
        /\ \A k \in 1..Len(lookup_table) :
                LET first == CHOOSE j \in 1..k :
                                /\ SchemaOnDisk(Committed[j]) = SchemaOnDisk(Committed[k])
                                /\ \A i \in 1..(j - 1) :
                                    SchemaOnDisk(Committed[i]) # SchemaOnDisk(Committed[k])
                    firstp == CHOOSE j \in 1..k :
                                /\ Prefix(Disk[Committed[j]].filename, prefix_depth)
                                     = Prefix(Disk[Committed[k]].filename, prefix_depth)
                                /\ \A i \in 1..(j - 1) :
                                    Prefix(Disk[Committed[i]].filename, prefix_depth)
                                     # Prefix(Disk[Committed[k]].filename, prefix_depth)
                IN  /\ lookup_table[k].era =
                         Cardinality({SchemaOnDisk(Committed[j]) : j \in 1..(first - 1)})
                    /\ lookup_table[k].prefix =
                         Cardinality({Prefix(Disk[Committed[j]].filename, prefix_depth) :
                                        j \in 1..(firstp - 1)})

\* C10: a collect call on a file that cannot be opened, or that lacks the
\* tree, returns normally and appends no row.
C10_UnreadableFileIsSkipped ==
    \A i \in 1..Len(calls) :
        (Disk[calls[i]].status \in {"noopen", "notree"} /\ outcome[i] # "running")
            => (outcome[i] = "returned" /\ i \notin Range(rowOwner))

\* a file that contributes no entries: an empty tree, or no tree at all
ZeroEntries(f) == Disk[f].status # "noopen" /\ EntriesOnDisk(f) = 0

\* C11: every step of a collect call on a file with zero entries leaves
\* eras, prefix_eras, entry_offsets and lookup_table as they were, and the
\* call returns normally.
C11_EmptyFileChangesNothing ==
    [][/\ (calls' # calls /\ ZeroEntries(Last(calls'))) =>
            UNCHANGED <<eras, prefix_eras, entry_offsets, lookup_table>>
       /\ \A t \in Threads :
            (/\ thread[t].pc # "idle"
             /\ ZeroEntries(thread[t].file)
             /\ thread'[t] # thread[t]) =>
                /\ UNCHANGED <<eras, prefix_eras, entry_offsets, lookup_table>>
                /\ thread'[t].pc = "idle"
                /\ outcome'[thread[t].call] = "returned"]_vars

\* the empty file e/z was collected after another file was committed, and
\* neither its schema nor its prefix is registered
C11_Witness ==
    /\ \E i \in 1..Len(calls) : calls[i] = "fz" /\ outcome[i] = "returned"
    /\ Len(lookup_table) >= 1
    /\ Len(entry_offsets) = Len(lookup_table) + 1
    /\ \A k \in 1..Len(eras) : "z" \notin Range(eras[k].names)
    /\ \A k \in 1..Len(prefix_eras) :
            prefix_eras[k].prefix # Prefix(Disk["fz"].filename, prefix_depth)

\* C12: for every committed file, the stored prefix selected by the row's
\* prefix index, followed by the row's filename, is the path that was
\* passed to collect.
C12_PrefixPlusSuffixIsThePath ==
    \A k \in 1..Len(lookup_table) :
        At(prefix_eras, lookup_table[k].prefix).prefix \o lookup_table[k].filename
            = Disk[Committed[k]].filename

\* a file on disk with entries in which some branch with baskets ends
\* before or after the tree's entry count
Truncated(f) ==
    /\ Disk[f].status = "ok"
    /\ Disk[f].num_entries > 0
    /\ \E i \in 1..Len(Disk[f].branches) :
            /\ Disk[f].branches[i].num_normal_baskets > 0
            /\ Disk[f].branches[i].fBasketEntry[
                    Disk[f].branches[i].num_normal_baskets + 1] # Disk[f].num_entries

\* C15: in every lookup row, each branch with at least one basket ends at
\* the file's entry count offsets[i+1] - offsets[i]; a collect call on a
\* file with entries in which some branch with baskets does not, fails with
\* an assertion and leaves eras, prefixes, offsets and rows unchanged.
C15_LastBasketStopIsTheEntryCount ==
    /\ [](\A k \in 1..Len(lookup_table) :
            \A name \in DOMAIN lookup_table[k].tree :
                lookup_table[k].tree[name] # <<>> =>
                    Last(lookup_table[k].tree[name]).stop
                        = entry_offsets[k + 1] - entry_offsets[k])
    /\ [][(calls' # calls /\ Truncated(Last(calls'))) =>
            /\ UNCHANGED <<eras, prefix_eras, entry_offsets, lookup_table>>
            /\ Last(outcome') = "AssertionError"]_vars

\* a file with entries whose path has fewer components than prefix_depth
ShortPath(f) ==
    /\ EntriesOnDisk(f) > 0
    /\ ~Truncated(f)
    /\ Len(Split(Disk[f].filename, "/")) < prefix_depth

\* C20: a collect call on a file with entries whose path has fewer
\* components than prefix_depth fails with an assertion and appends no
\* offset and no row and inserts no era and no prefix, so that between
\* commits there is one offset more than rows and one era per schema of the
\* committed files.
C20_ShortPathCommitsNothing ==
    /\ \A i \in 1..Len(calls) :
            (ShortPath(calls[i]) /\ outcome[i] # "running") =>
                /\ outcome[i] = "AssertionError"
                /\ i \notin Range(offOwner)
                /\ i \notin Range(rowOwner)
    /\ lock = "free" =>
            /\ Len(entry_offsets) = Len(lookup_table) + 1
            /\ Len(eras) =
                 Cardinality({SchemaOnDisk(Committed[k]) : k \in 1..Len(Committed)})
            /\ Len(prefix_eras) <= Len(lookup_table)

\* the basket descriptors of a branch as the file on disk holds them
BasketsOnDisk(b) ==
    [j \in 1..b.num_normal_baskets |->
        [seek |-> b.fBasketSeek[j], stop |-> b.fBasketEntry[j + 1],
         bytes |-> b.fBasketBytes[j]]]

\* C21: in every lookup row, tree[name] is the basket-descriptor sequence
\* of the branch called name in the row's own file, for every branch of
\* that file, also when the file joined an era that an earlier file with
\* the same branches in another order created.
C21_RowTreeHoldsTheBranchesOwnBaskets ==
    \A k \in 1..Len(lookup_table) :
        \A i \in 1..Len(Disk[Committed[k]].branches) :
            LET b == Disk[Committed[k]].branches[i]
            IN  /\ b.name \in DOMAIN lookup_table[k].tree
                /\ lookup_table[k].tree[b.name] = BasketsOnDisk(b)

(***************************************************************************)
(* Lookup properties.                                                      *)
(***************************************************************************)
\* x clamped to [0, num_entries] of the index array in the store
Clamped(x) ==
    IF x < 0 THEN 0
    ELSE IF x > Last(client.offsets) THEN Last(client.offsets) ELSE x

\* file i's entry span [offsets[i], offsets[i+1]) meets [e1, e2)
SpanMeets(i, e1, e2) ==
    /\ At(client.offsets, i) < e2
    /\ At(client.offsets, i + 1) > e1
    /\ At(client.offsets, i) < At(client.offsets, i + 1)

FileIndices == 0..(Len(client.offsets) - 2)

\* C4: for a non-empty clamped interval, _file_index_range returns (i1, i2)
\* with i1 <= i < i2 exactly for the files whose entry span meets it; a stop
\* on a file boundary leaves the next file out, and the span of file i
\* gives (i, i + 1).
C4_RangeIsTheFilesThatMeet ==
    (ret.op = "file_index_range" /\ Clamped(ret.args[1]) < Clamped(ret.args[2])) =>
        /\ ret.value[1]..(ret.value[2] - 1) =
              {i \in FileIndices :
                  SpanMeets(i, Clamped(ret.args[1]), Clamped(ret.args[2]))}
        /\ \A i \in FileIndices :
              (ret.args = <<At(client.offsets, i), At(client.offsets, i + 1)>>)
                  => ret.value = <<i, i + 1>>

\* a range over the first two of three files, its stop on the boundary
\* between the second and the third
C4_Witness ==
    /\ ret.op = "file_index_range"
    /\ Len(client.offsets) = 4
    /\ ret.args = <<1, At(client.offsets, 2)>>
    /\ ret.value = <<0, 2>>

\* C5: _file_index_range returns (0, 0) when the interval is empty after
\* clamping: equal arguments, entry_start >= entry_stop, an interval below
\* 0 or one at or above num_entries.
C5_EmptyRangeSelectsNoFile ==
    (ret.op = "file_index_range" /\ Clamped(ret.args[1]) >= Clamped(ret.args[2])) =>
        ret.value = <<0, 0>>

\* a zero-width interval on the boundary between two files
C5_Witness ==
    /\ ret.op = "file_index_range"
    /\ Len(client.offsets) >= 3
    /\ ret.args = <<At(client.offsets, 1), At(client.offsets, 1)>>
    /\ ret.value = <<0, 0>>

\* the baskets of a branch in file i of the store, each with its global
\* entry span and its byte range
BasketSpans(i, name) ==
    LET baskets == At(client.file, i).tree[name]
    IN  [k \in 1..Len(baskets) |->
            [start |-> At(client.offsets, i)
                        + (IF k = 1 THEN 0 ELSE baskets[k - 1].stop),
             stop |-> At(client.offsets, i) + baskets[k].stop,
             bytes |-> <<baskets[k].seek, baskets[k].seek + baskets[k].bytes>>]]

\* the byte ranges of the baskets that overlap [entry_start, entry_stop),
\* files index_start..index_stop-1 in order, baskets in order
OverlappingRanges(name, index_start, index_stop, entry_start, entry_stop) ==
    LET hits(i) == SelectSeq(BasketSpans(i, name),
                             LAMBDA b : /\ b.start < b.stop
                                        /\ b.start < entry_stop
                                        /\ entry_start < b.stop)
        perFile == [j \in 1..(index_stop - index_start) |->
                        [k \in 1..Len(hits(index_start + j - 1)) |->
                            hits(index_start + j - 1)[k].bytes]]
    IN  Flatten(perFile)

\* C6: entries_to_ranges_or_baskets returns, in file order then basket
\* order, one byte range for each basket of the files of the resolved range
\* that overlaps [entry_start, entry_stop), and none for any other basket.
C6_RangesAreTheOverlappingBaskets ==
    (ret.op = "entries_to_ranges_or_baskets" /\ ret.raised = <<>>) =>
        [k \in 1..Len(ret.value) |-> ret.value[k][2]] =
            OverlappingRanges(ret.branch, fake.index_start, fake.index_stop,
                              fake.entry_start, fake.entry_stop)

\* the descriptor key of a branch in file i of the store, "" when the
\* file's era has no such branch
DescriptorKey(i, name) ==
    LET era == At(client.era, At(client.file, i).era)
    IN  IF name \in Range(era.names)
        THEN PickleLoads(era.interpretations[
                CHOOSE k \in 1..Len(era.names) : era.names[k] = name]).cache_key
        ELSE ""

Disagree(i, j, name) ==
    /\ DescriptorKey(i, name) # ""
    /\ DescriptorKey(j, name) # ""
    /\ DescriptorKey(i, name) # DescriptorKey(j, name)

\* the path of file i as the store holds it
StoredPath(i) ==
    At(client.prefix, At(client.file, i).prefix) \o At(client.file, i).filename

\* C7: a request for a branch's interpretation over a range with two files
\* that disagree on the descriptor fails with the error naming the branch,
\* the first file whose descriptor differs and that file's offset; over a
\* range whose files agree it returns the descriptor and the branch is
\* touched.
C7_InterpretationChecksTheRange ==
    ret.op = "interpretation" =>
        LET R == PyRange(fake.index_start, fake.index_stop)
            differs == {i \in R : \E j \in R : j < i /\ Disagree(j, i, ret.branch)}
        IN  /\ differs # {} =>
                LET i == CHOOSE i \in differs : \A j \in differs : i <= j
                IN  ret.raised = <<InterpretationChanged(ret.branch, StoredPath(i),
                                                         At(client.offsets, i))>>
            /\ (/\ R # {}
                /\ \A i \in R : DescriptorKey(i, ret.branch) # ""
                /\ differs = {}) =>
                    /\ ret.raised = <<>>
                    /\ ret.value =
                         <<[cache_key |-> DescriptorKey(fake.index_start, ret.branch)]>>
                    /\ ret.branch \in Range(fake.branches_touched)

\* C13: _fetch_filedata never asks the store for a file row whose data is
\* already cached, also in a range that holds cached and uncached rows, and
\* never asks for an era record or a prefix string that it already holds.
C13_CachedFileDataIsNotRefetched ==
    \A r \in requests : r.kind \in {"file", "era", "prefix"} => ~r.cached

\* every (file index, branch) pair of the call's arguments is in the cache
SeekdataCached(seekdata, args) ==
    \A i \in PyRange(args[1], args[2]) :
        Range(args[3]) \subseteq SeekNames(seekdata, i)

\* C14: no entry of the seek-data cache is ever removed or changed; a
\* _fetch_seekdata call whose pairs are all cached asks the store for
\* nothing; after a call every pair of its range and branch list is cached,
\* with the baskets the store holds for it.
C14_SeekdataCacheIsAdditive ==
    /\ [][\A i \in DOMAIN _seekdata : \A name \in DOMAIN _seekdata[i] :
            /\ i \in DOMAIN _seekdata'
            /\ name \in DOMAIN _seekdata'[i]
            /\ _seekdata'[i][name] = _seekdata[i][name]]_vars
    /\ [][(fetches' # fetches /\ SeekdataCached(_seekdata, ret'.args)) =>
            (requests' = requests /\ ret'.raised = <<>>)]_vars
    /\ []((ret.op = "fetch_seekdata" /\ ret.raised = <<>>) =>
            /\ SeekdataCached(_seekdata, ret.args)
            /\ \A i \in PyRange(ret.args[1], ret.args[2]) :
                    \A name \in Range(ret.args[3]) :
                        _seekdata[i][name] = At(client.file, i).tree[name])

\* a second call for two branches over two files, of which the first
\* call had cached the first file's and not the second's
C14_Witness ==
    /\ fetches = 2
    /\ ret.op = "fetch_seekdata"
    /\ ret.raised = <<>>
    /\ ret.args[1] = 0
    /\ ret.args[2] = 2
    /\ Len(ret.args[3]) = 2
    /\ \E r \in requests : r.kind = "tree" /\ r.index = 0 /\ r.cached
    /\ \E r \in requests : r.kind = "tree" /\ r.index = 1 /\ ~r.cached

\* the names of all eras of the store, era by era
AllNames == Flatten([i \in 1..Len(client.era) |-> client.era[i].names])

\* v lists each name of the eras once, ordered by first appearance
InFirstSeenOrder(v) ==
    /\ Range(v) = Range(AllNames)
    /\ Len(v) = Cardinality(Range(v))
    /\ \A j, k \in 1..Len(v) :
            j < k => IndexOf(AllNames, v[j]) < IndexOf(AllNames, v[k])

\* the descriptor of a name in the last era that has it
LastDescriptor(name) ==
    LET i == CHOOSE i \in 1..Len(client.era) :
                /\ name \in Range(client.era[i].names)
                /\ \A j \in (i + 1)..Len(client.era) :
                        name \notin Range(client.era[j].names)
    IN  PickleLoads(client.era[i].interpretations[
            IndexOf(client.era[i].names, name)])

\* C16: keys() returns the distinct branch names of all eras in first-seen
\* order, whether or not items() was called before; items() has the same
\* names in the same order, each with the descriptor of the last era that
\* has the name.
C16_KeysAreTheNamesInFirstSeenOrder ==
    /\ ret.op = "keys" => InFirstSeenOrder(ret.value)
    /\ ret.op = "items" =>
            /\ InFirstSeenOrder([k \in 1..Len(ret.value) |-> ret.value[k].name])
            /\ \A k \in 1..Len(ret.value) :
                    ret.value[k].interpretation = LastDescriptor(ret.value[k].name)
    /\ (_keys # <<>> /\ _items # <<>>) =>
            _keys[1] = [k \in 1..Len(_items[1]) |-> _items[1][k].name]

\* keys() after items() on a store with two names, one of which two eras
\* describe differently
C16_Witness ==
    /\ ret.op = "keys"
    /\ _items # <<>>
    /\ Len(ret.value) = 2
    /\ \E k \in 1..Len(_items[1]) :
            _items[1][k].interpretation # PickleLoads(
                client.era[1].interpretations[
                    IndexOf(client.era[1].names, _items[1][k].name)])
            /\ _items[1][k].name \in Range(client.era[1].names)

\* the collector has not changed since the engine's index array was taken
EngineIsCurrent ==
    /\ Constructed
    /\ lock = "free"
    /\ client = IndexArray(entry_offsets, lookup_table, eras, prefix_eras)

\* C17: after collect calls that all returned and committed a file, the
\* engine built from to_array() has num_entries equal to the collector's
\* last entry offset, the sum of the committed entry counts, and keys()
\* is the union of the names of the collector's eras.
C17_EngineAgreesWithCollector ==
    (ret.op = "keys" /\ AllReturned /\ Len(lookup_table) >= 1 /\ EngineIsCurrent) =>
        /\ num_entries = Last(entry_offsets)
        /\ num_entries =
             SumSeq([k \in 1..Len(Committed) |-> EntriesOnDisk(Committed[k])])
        /\ Range(ret.value) = UNION {Range(eras[i].names) : i \in 1..Len(eras)}

\* two committed files of different schemas, the second without a branch
\* of the first
C17_Witness ==
    /\ ret.op = "keys"
    /\ AllReturned
    /\ EngineIsCurrent
    /\ Len(eras) = 2
    /\ num_entries = 3
    /\ Range(ret.value) = {"x", "y"}
    /\ Range(eras[2].names) = {"x"}

\* the files whose entry span meets the half-open range [e1, e2)
FilesOfRange(e1, e2) == {i \in FileIndices : e1 < e2 /\ SpanMeets(i, e1, e2)}

\* C18: while an arrays() call is in progress there is one open source per
\* file whose entries meet the requested range; once the call has returned
\* or raised, also when a later source could not be opened or the
\* extraction failed, every source it opened is closed.
C18_SourcesAreClosedAfterTheRead ==
    /\ fake.live =>
            /\ DOMAIN sources = FilesOfRange(fake.entry_start, fake.entry_stop)
            /\ \A i \in DOMAIN sources : sources[i] = "open"
    /\ ~fake.live => \A i \in DOMAIN sources : sources[i] = "closed"
    /\ (ret.op = "arrays" /\ ret.raised # <<>>) =>
            \E failed \in FilesOfRange(ret.args[1], ret.args[2]) :
                DOMAIN sources =
                    {i \in FilesOfRange(ret.args[1], ret.args[2]) : i < failed}

\* the second of two sources could not be opened, and the one opened
\* before it is closed
C18_Witness ==
    /\ ret.op = "arrays"
    /\ ret.raised # <<>>
    /\ FilesOfRange(ret.args[1], ret.args[2]) = {0, 1}
    /\ DOMAIN sources = {0}
    /\ sources[0] = "closed"

\* the ranges that chunks was given for file index i, in order
RangesOfFile(i) ==
    LET at == SelectSeq([k \in 1..Len(read.ranges) |-> k],
                        LAMBDA k : fake.range_to_file_index[k] = i)
    IN  [j \in 1..Len(at) |-> read.ranges[at[j]]]

\* every touched branch was asked for its ranges once, and no call raised
EachTouchedBranchAsked ==
    /\ fake.live
    /\ ~read.raised
    /\ Range(read.called) = Range(fake.branches_touched)
    /\ Len(read.called) = Cardinality(Range(read.called))

\* C19: once every touched branch was asked for its ranges exactly once,
\* _range_to_file_index has one file index per emitted range, in emission
\* order, each the index of a file that holds a basket at that range; the
\* assertion of chunks holds, and chunks gives every range once to the
\* source of the file index recorded for it and to no other source.
C19_ChunksRouteEachRangeToItsFile ==
    /\ EachTouchedBranchAsked =>
            /\ Len(fake.range_to_file_index) = Len(read.ranges)
            /\ \A k \in 1..Len(read.ranges) :
                    \E name \in Range(read.called) :
                        \E b \in 1..Len(BasketSpans(fake.range_to_file_index[k], name)) :
                            BasketSpans(fake.range_to_file_index[k], name)[b].bytes
                                = read.ranges[k]
    /\ ret.op = "chunks" =>
            /\ ret.raised = <<>>
            /\ {ret.value[g].file_index : g \in 1..Len(ret.value)}
                    = Range(fake.range_to_file_index)
            /\ \A g, h \in 1..Len(ret.value) :
                    ret.value[g].file_index = ret.value[h].file_index => g = h
            /\ \A g \in 1..Len(ret.value) :
                    /\ ret.value[g].file_index \in DOMAIN sources
                    /\ sources[ret.value[g].file_index] = "open"
                    /\ ret.value[g].some_ranges = RangesOfFile(ret.value[g].file_index)

\* two branches over two files: the ranges of the two files alternate in
\* the list that chunks is given
C19_Witness ==
    /\ ret.op = "chunks"
    /\ ret.raised = <<>>
    /\ Len(read.called) = 2
    /\ Len(ret.value) = 2
    /\ \E j, k \in 1..Len(read.ranges) :
            /\ j < k
            /\ fake.range_to_file_index[j] > fake.range_to_file_index[k]

\* C22: when entries_to_ranges_or_baskets is called on a branch whose
\* interpretation was requested, in any order relative to the calls on the
\* other branches, the seek data of that branch is cached for every file
\* index of the resolved range, so the walk over the files does not fail.
C22_SeekdataIsCachedBeforeTheWalk ==
    (/\ ret.op = "entries_to_ranges_or_baskets"
     /\ ret.branch \in Range(fake.branches_touched)) =>
        /\ ret.raised = <<>>
        /\ \A i \in PyRange(fake.index_start, fake.index_stop) :
                ret.branch \in SeekNames(_seekdata, i)

\* the file indices of the facade tree's range whose descriptor of the branch
\* differs from that of an earlier file of the range
DiffersIn(name) ==
    LET R == PyRange(fake.index_start, fake.index_stop)
    IN  {i \in R : \E j \in R : j < i /\ Disagree(j, i, name)}

\* C23: over a range whose files all have the branch and disagree on its
\* descriptor, every request for the branch's interpretation, the first and
\* the later ones alike, fails with the descriptive error and returns no
\* descriptor; a branch is touched only over a range that agrees on it.
C23_InterpretationRequestsAreRepeatable ==
    /\ (/\ ret.op = "interpretation"
        /\ \A i \in PyRange(fake.index_start, fake.index_stop) :
               DescriptorKey(i, ret.branch) # ""
        /\ DiffersIn(ret.branch) # {}) =>
            LET i == CHOOSE i \in DiffersIn(ret.branch) :
                        \A j \in DiffersIn(ret.branch) : i <= j
            IN  /\ ret.value = <<>>
                /\ ret.raised = <<InterpretationChanged(ret.branch, StoredPath(i),
                                                         At(client.offsets, i))>>
    /\ \A name \in Range(fake.branches_touched) : DiffersIn(name) = {}

(***************************************************************************)
(* Concatenation properties.                                               *)
(***************************************************************************)
\* the number of file rows, eras, prefixes and entries before array n
Before(n, count(_)) == SumSeq([m \in 1..(n - 1) |-> count(arrays[m])])

NumFiles(a) == Len(a.file)

NumEras(a) == Len(a.era)

NumPrefixes(a) == Len(a.prefix)

NumOffsets(a) == Len(a.offsets) - 1

TotalEntries(a) == Last(a.offsets)

=============================================================================
